---- MODULE Spec2Model ----
(***************************************************************************)
(* A model of the MultiModalRAG ingestion and retrieval pipeline:          *)
(*   DocumentProcessor  (src/src/document_processor.py)                    *)
(*   VectorStore        (src/src/vector_store.py)                          *)
(*   QueryProcessor     (src/src/query_processor.py)                       *)
(*   process_document, query_system   (src/main.py)                        *)
(* Strings are sequences of one-character strings, so that slicing,        *)
(* stripping, joining and substring tests are computed as Python computes  *)
(* them.                                                                   *)
(***************************************************************************)
EXTENDS Integers, Sequences, FiniteSets, TLC

VARIABLES
    config,            \* Config.CHUNK_SIZE / Config.CHUNK_OVERLAP of the run
    pdf,               \* the opened document: per page its text and its number of embedded images
    page_num,          \* process_pdf: index of the page being processed (0-based, as enumerate gives it)
    img_index,         \* _extract_and_describe_images: index of the next image of the page (0-based)
    descriptions,      \* _extract_and_describe_images: descriptions collected for the current page
    files,             \* temporary image files that exist in Config.IMAGES_DIR
    error_log,         \* the "Error processing image ..." lines printed by the except handler
    processed_pages,   \* process_pdf: the pages emitted so far
    chunks,            \* the result of chunk_document
    pc,                \* position of the running command (process_document / query_system)
    run,               \* number of process_document runs started against the index
    index,             \* the remote index: record id -> [values, metadata]
    batch_size,        \* upsert_documents: its batch_size argument
    doc_i,             \* upsert_documents: number of documents the loop has taken
    vectors,           \* upsert_documents: the batch being accumulated
    upsert_calls,      \* the index.upsert calls of this VectorStore, each with its outcome
    embed_calls,       \* the number of genai.embed_content calls of this VectorStore
    search_call,       \* the last VectorStore.search call: its inputs, outcomes and result
    index_at_start,    \* the records the index held when the running process command started
    generate_call,     \* the generate_response call: its inputs, the model requests it sent, its result
    remote_indexes,    \* the indexes of the Pinecone project: name -> [dimension, ready]
    index_names,       \* _get_or_create_index: its list of the names of the existing indexes
    pinecone_ops       \* the delete_index / create_index / describe_index calls made, in order

docVars == <<config, pdf, page_num, img_index, descriptions, files, error_log,
             processed_pages, chunks>>

storeVars == <<run, index, batch_size, doc_i, vectors, upsert_calls, embed_calls, search_call>>

queryVars == <<generate_call>>

remoteVars == <<remote_indexes, index_names, pinecone_ops>>

vars == <<docVars, pc, storeVars, index_at_start, queryVars, remoteVars>>

(***************************************************************************)
(* Bounds of the model.                                                    *)
(***************************************************************************)
MaxPages == 2          \* pages of a document
MaxImages == 2         \* embedded images of a document
MaxTextLen == 1        \* characters of a page's extracted text
MaxChunkSize == 10     \* largest CHUNK_SIZE tried
MaxBatch == 3          \* largest batch_size tried
MaxDocs == 4           \* chunks of a document that is upserted

Min(a, b) == IF a < b THEN a ELSE b

(***************************************************************************)
(* Python string helpers.                                                  *)
(***************************************************************************)
\* s[a:b] for 0 <= a <= b
Slice(s, a, b) == SubSeq(s, a + 1, Min(b, Len(s)))

Whitespace == {" ", "\n"}

\* str.strip(): leading and trailing whitespace removed
RECURSIVE LStrip(_)
LStrip(s) == IF s # <<>> /\ Head(s) \in Whitespace THEN LStrip(Tail(s)) ELSE s

RECURSIVE RStrip(_)
RStrip(s) ==
    IF s # <<>> /\ s[Len(s)] \in Whitespace THEN RStrip(SubSeq(s, 1, Len(s) - 1)) ELSE s

Strip(s) == RStrip(LStrip(s))

\* sep.join(parts)
RECURSIVE Join(_, _)
Join(sep, parts) ==
    IF parts = <<>> THEN <<>>
    ELSE IF Len(parts) = 1 THEN parts[1]
    ELSE parts[1] \o sep \o Join(sep, Tail(parts))

Digit(n) == <<"0", "1", "2", "3", "4", "5", "6", "7", "8", "9">>[n + 1]

\* str(n) for n >= 0
RECURSIVE ToStr(_)
ToStr(n) == IF n < 10 THEN <<Digit(n)>> ELSE ToStr(n \div 10) \o <<Digit(n % 10)>>

PagePrefix == <<"P", "a", "g", "e", " ">>
VisualHeader ==
    <<"\n", "\n", "V", "i", "s", "u", "a", "l", " ", "C", "o", "n", "t", "e", "n", "t", ":", "\n">>

\* "[Image description error: " + str(e) + "]", the exception text being one character here
ImageDescriptionError ==
    <<"[", "I", "m", "a", "g", "e", " ", "d", "e", "s", "c", "r", "i", "p", "t", "i", "o", "n",
      " ", "e", "r", "r", "o", "r", ":", " ", "e", "]">>

ImageNotAvailable ==
    <<"[", "I", "m", "a", "g", "e", " ", "p", "r", "o", "c", "e", "s", "s", "i", "n", "g",
      " ", "n", "o", "t", " ", "a", "v", "a", "i", "l", "a", "b", "l", "e", "]">>

(***************************************************************************)
(* DocumentProcessor._get_image_description.  `model_ok` is the hasattr /  *)
(* truthiness test of self.gemini_model; `resp` is what opening the image  *)
(* and calling the model produced: an exception, or a response whose text  *)
(* is resp.text.  Every exception is caught and turned into a string.      *)
(***************************************************************************)
GetImageDescription(model_ok, resp) ==
    IF ~model_ok THEN ImageNotAvailable
    ELSE IF resp.kind = "raise" THEN ImageDescriptionError
    ELSE IF resp.text = <<>> THEN ImageDescriptionError      \* "Empty response" ValueError, caught
    ELSE Strip(resp.text)

\* What the description model can answer for one image.
Responses ==
    {[kind |-> "raise", text |-> <<>>]} \cup
    {[kind |-> "text", text |-> t] : t \in {<<>>, <<" ">>, <<" ", "x">>}}

(***************************************************************************)
(* The page record process_pdf builds (lines 48-56).                       *)
(***************************************************************************)
MakePage(pnum, text, image_descriptions) ==
    [page_number |-> pnum + 1,
     text |-> text,
     image_descriptions |-> image_descriptions,
     full_content |->
        PagePrefix \o ToStr(pnum + 1) \o <<"\n", "\n">> \o text \o
        (IF image_descriptions # <<>>
            THEN VisualHeader \o Join(<<"\n">>, image_descriptions)
            ELSE <<>>)]

(***************************************************************************)
(* DocumentProcessor.chunk_document.                                       *)
(***************************************************************************)
\* range(0, len(text), CHUNK_SIZE - CHUNK_OVERLAP) has a next element i
RangeNoTail(i, text, cfg) == i + cfg.CHUNK_OVERLAP < Len(text) \/ i = 0
RangeHas(i, text, cfg) == i < Len(text)

\* text[i:i + CHUNK_SIZE]
ChunkWindowShort(text, i, cfg) == Slice(text, i, i + cfg.CHUNK_SIZE - 1)
ChunkWindow(text, i, cfg) == Slice(text, i, i + cfg.CHUNK_SIZE)

\* chunk_id += 1
NextChunkIdStuck(chunk_id) == chunk_id
NextChunkId(chunk_id) == chunk_id + 1

\* len(page.get('image_descriptions', [])) > 0
HasImages(page) == Len(page.image_descriptions) > 0

\* the two nested loops: p is the page (1-based position in the list), i the range value
RECURSIVE ChunkLoop(_, _, _, _, _, _)
ChunkLoop(pages, p, i, chunk_id, acc, cfg) ==
    IF p > Len(pages) THEN acc
    ELSE IF RangeHas(i, pages[p].full_content, cfg)
    THEN ChunkLoop(pages, p, i + (cfg.CHUNK_SIZE - cfg.CHUNK_OVERLAP), NextChunkId(chunk_id),
                   Append(acc, [chunk_id |-> chunk_id,
                                page_number |-> pages[p].page_number,
                                content |-> ChunkWindow(pages[p].full_content, i, cfg),
                                has_images |-> HasImages(pages[p])]),
                   cfg)
    ELSE ChunkLoop(pages, p + 1, 0, chunk_id, acc, cfg)

\* chunk_id = 0 (line 168), then the loops
ChunkDocumentContinuing(pages, cfg) ==
    ChunkLoop(pages, 1, 0, Cardinality(DOMAIN index), <<>>, cfg)
ChunkDocument(pages, cfg) == ChunkLoop(pages, 1, 0, 0, <<>>, cfg)

(***************************************************************************)
(* Input spaces.                                                           *)
(***************************************************************************)
\* CHUNK_OVERLAP < CHUNK_SIZE, or range() gets a step <= 0
ConfigSpace ==
    {cfg \in [CHUNK_SIZE : 1..MaxChunkSize, CHUNK_OVERLAP : 0..(MaxChunkSize - 1)] :
        cfg.CHUNK_OVERLAP < cfg.CHUNK_SIZE}

SeqsUpTo(S, n) == UNION {[1..k -> S] : k \in 0..n}

TextSpace == SeqsUpTo({"a", "b"}, MaxTextLen)

\* the documents process_pdf is run on: at least one page, at most MaxImages images in all
RECURSIVE TotalImages(_)
TotalImages(d) == IF d = <<>> THEN 0 ELSE Head(d).num_images + TotalImages(Tail(d))

PdfSpace ==
    {d \in UNION {[1..n -> [text : {<<"a">>}, num_images : 0..MaxImages]] : n \in 1..MaxPages} :
        TotalImages(d) <= MaxImages}

\* the page lists process_pdf can hand to chunk_document
PageListSpace ==
    UNION {
        {[k \in 1..n |-> MakePage(k - 1, t[k], d[k])] :
            t \in [1..n -> TextSpace], d \in [1..n -> {<<>>, << <<"x">> >>}]} :
        n \in 1..MaxPages}

(***************************************************************************)
(* DocumentProcessor.process_pdf and _extract_and_describe_images.  One    *)
(* action is one pass through the body of the image loop, by the way the   *)
(* pass ends.                                                              *)
(***************************************************************************)
InImageLoop ==
    /\ pc = "process_pdf"
    /\ page_num < Len(pdf)
    /\ img_index < pdf[page_num + 1].num_images

\* f"page_{page_num + 1}_img_{img_index + 1}.png" in IMAGES_DIR
ImagePath == <<page_num + 1, img_index + 1>>

\* except Exception: print(...); continue
ImageExceptPropagates ==
    /\ pc' = "raised"
    /\ UNCHANGED <<error_log, img_index>>
ImageExcept ==
    /\ error_log' = Append(error_log, [page |-> page_num + 1, img_index |-> img_index])
    /\ img_index' = img_index + 1
    /\ UNCHANGED pc

\* extract_image, base_image["image"] or open() raises: no file was created
ImageExtractFails ==
    /\ InImageLoop
    /\ ImageExcept
    /\ UNCHANGED <<config, pdf, page_num, descriptions, files, processed_pages, chunks>>
    /\ UNCHANGED storeVars
    /\ UNCHANGED <<index_at_start, queryVars, remoteVars>>

\* open() created the file and img_file.write raises
ImageWriteFails ==
    /\ InImageLoop
    /\ files' = files \cup {ImagePath}
    /\ ImageExcept
    /\ UNCHANGED <<config, pdf, page_num, descriptions, processed_pages, chunks>>
    /\ UNCHANGED storeVars
    /\ UNCHANGED <<index_at_start, queryVars, remoteVars>>

\* the file is written, described and removed; self.gemini_model is set by __init__
ImageDescribed ==
    /\ InImageLoop
    /\ \E resp \in Responses :
          descriptions' = Append(descriptions, GetImageDescription(TRUE, resp))
    /\ files' = (files \cup {ImagePath}) \ {ImagePath}
    /\ img_index' = img_index + 1
    /\ UNCHANGED <<config, pdf, page_num, error_log, processed_pages, chunks, pc, storeVars>>
    /\ UNCHANGED <<index_at_start, queryVars, remoteVars>>

\* the file is written and described, and os.remove raises
ImageRemoveFails ==
    /\ InImageLoop
    /\ \E resp \in Responses :
          descriptions' = Append(descriptions, GetImageDescription(TRUE, resp))
    /\ files' = files \cup {ImagePath}
    /\ ImageExcept
    /\ UNCHANGED <<config, pdf, page_num, processed_pages, chunks>>
    /\ UNCHANGED storeVars
    /\ UNCHANGED <<index_at_start, queryVars, remoteVars>>

\* the image loop is over: process_pdf appends the page; after the last page it returns
EmitPage ==
    /\ pc = "process_pdf"
    /\ page_num < Len(pdf)
    /\ img_index = pdf[page_num + 1].num_images
    /\ processed_pages' =
          Append(processed_pages, MakePage(page_num, pdf[page_num + 1].text, descriptions))
    /\ page_num' = page_num + 1
    /\ img_index' = 0
    /\ descriptions' = <<>>
    /\ pc' = IF page_num + 1 = Len(pdf) THEN "chunk" ELSE "process_pdf"
    /\ UNCHANGED <<config, pdf, files, error_log, chunks, storeVars>>
    /\ UNCHANGED <<index_at_start, queryVars, remoteVars>>

\* process_document: chunks = doc_processor.chunk_document(processed_pages)
ChunkDocumentCall ==
    /\ pc = "chunk"
    /\ chunks' = ChunkDocument(processed_pages, config)
    /\ pc' = "chunked"
    /\ UNCHANGED <<config, pdf, page_num, img_index, descriptions, files, error_log,
                   processed_pages, storeVars>>
    /\ UNCHANGED <<index_at_start, queryVars, remoteVars>>

(***************************************************************************)
(* VectorStore.  The sizes below are the program's, scaled to the lengths  *)
(* of the model's texts.                                                   *)
(***************************************************************************)
GEMINI_EMBEDDING_DIM == 1      \* 768 in Config
EmbedCharLimit == 8            \* 10000 in get_embedding
MetadataChars == 6             \* 500 in upsert_documents
TopK == 3                      \* generate_response: search(query, top_k=3)

\* the values random.random() gives, as far as the model tells them apart
RandomFloats == {0, 1}

Embeddings == [1..GEMINI_EMBEDDING_DIM -> RandomFloats]

\* genai.embed_content: the embedding service, a function of the text it is sent
EmbedContent(text) == [k \in 1..GEMINI_EMBEDDING_DIM |-> (Len(text) + k) % 2]

\* what one genai.embed_content call can do: answer, or fail (raise, or answer without an
\* 'embedding' key); `random` is what the fallback then draws
EmbedOutcomes ==
    {[kind |-> "ok", random |-> <<>>]} \cup {[kind |-> "fail", random |-> r] : r \in Embeddings}

\* VectorStore.get_embedding
GetEmbedding(text, outcome) ==
    LET sent == IF Len(text) > EmbedCharLimit THEN Slice(text, 0, EmbedCharLimit) ELSE text
    IN  IF outcome.kind = "ok" THEN EmbedContent(sent) ELSE outcome.random

\* the vector record upsert_documents builds for a chunk (lines 115-123)
MakeVectorAppendId(doc, embedding) ==
    [id |-> ToStr(doc.chunk_id + Cardinality(DOMAIN index)),
     values |-> embedding,
     metadata |-> [page_number |-> doc.page_number,
                   has_images |-> doc.has_images,
                   content |-> Slice(doc.content, 0, MetadataChars)]]
MakeVector(doc, embedding) ==
    [id |-> ToStr(doc.chunk_id),
     values |-> embedding,
     metadata |-> [page_number |-> doc.page_number,
                   has_images |-> doc.has_images,
                   content |-> Slice(doc.content, 0, MetadataChars)]]

\* len(vectors) >= batch_size
BatchFullLate(vs, bs) == Len(vs) > bs
BatchFull(vs, bs) == Len(vs) >= bs

EmptyIndex == [id \in {} |-> <<>>]

\* index.upsert(vectors=vs) when the index accepts it: insert or overwrite by id
RECURSIVE IndexUpsert(_, _)
IndexUpsert(idx, vs) ==
    IF vs = <<>> THEN idx
    ELSE IndexUpsert(
            [id \in DOMAIN idx \cup {Head(vs).id} |->
                IF id = Head(vs).id
                    THEN [values |-> Head(vs).values, metadata |-> Head(vs).metadata]
                    ELSE idx[id]],
            Tail(vs))

\* the similarity the index ranks by
RECURSIVE Dot(_, _)
Dot(v, w) == IF v = <<>> THEN 0 ELSE Head(v) * Head(w) + Dot(Tail(v), Tail(w))

\* index.query(vector, top_k, include_metadata=True) when the index answers: the top_k
\* records by similarity, best first, ties in an order the index fixes
ProviderMatches(idx, vector, top_k) ==
    LET n == Min(top_k, Cardinality(DOMAIN idx))
        score(id) == Dot(vector, idx[id].values)
        ranked == {m \in [1..n -> DOMAIN idx] :
                     /\ \A j, k \in 1..n : j < k => m[j] # m[k] /\ score(m[j]) >= score(m[k])
                     /\ \A id \in DOMAIN idx :
                          (\A j \in 1..n : m[j] # id) => \A j \in 1..n : score(m[j]) >= score(id)}
        best == CHOOSE m \in ranked : TRUE
    IN  [k \in 1..n |-> [id |-> best[k], score |-> score(best[k]), metadata |-> idx[best[k]].metadata]]

\* the formatted result of one match (lines 152-157)
FormatMatch(match) ==
    [id |-> match.id,
     score |-> match.score,
     metadata |-> match.metadata,
     content |-> IF "content" \in DOMAIN match.metadata THEN match.metadata.content ELSE <<>>]

\* what the index does with a query: answers ("ok"), raises ("raise"), or answers with a
\* match the formatting loop raises on ("bad_match")
ProviderOutcomes == {"ok", "raise", "bad_match"}

\* the try / except of VectorStore.search around index.query and the formatting loop
SearchTryUnguarded(provider, matches) ==
    IF provider # "ok" THEN [raised |-> TRUE, results |-> <<>>]
    ELSE [raised |-> FALSE, results |-> [k \in DOMAIN matches |-> FormatMatch(matches[k])]]
SearchTry(provider, matches) ==
    IF provider # "ok" THEN [raised |-> FALSE, results |-> <<>>]
    ELSE [raised |-> FALSE, results |-> [k \in DOMAIN matches |-> FormatMatch(matches[k])]]

NoSearch ==
    [query |-> <<>>, embed_ok |-> TRUE, vector |-> <<>>, provider |-> "none",
     matches |-> <<>>, results |-> <<>>]

\* a command has ended: returned ("done", "searched") or died of an exception ("raised")
Ended == {"done", "raised", "searched"}

\* the state of the index and of a VectorStore no command has used yet
StoreIdle ==
    /\ run = 0
    /\ index = EmptyIndex
    /\ batch_size = 1
    /\ doc_i = 0
    /\ vectors = <<>>
    /\ upsert_calls = <<>>
    /\ embed_calls = 0
    /\ search_call = NoSearch
    /\ index_at_start = EmptyIndex

\* Config.INDEX_NAME
INDEX_NAME == "multimodal-rag-index"

\* no generate_response call has been made
NoGenerate ==
    [use_vision |-> FALSE, gemini_model |-> TRUE, requests |-> <<>>, path |-> "none",
     response |-> <<>>]

QueryIdle == generate_call = NoGenerate

\* the Pinecone project as VectorStore.__init__ leaves it: the index is there, with the
\* configured dimension
RemoteIdle ==
    /\ remote_indexes = [n \in {INDEX_NAME} |-> [dimension |-> GEMINI_EMBEDDING_DIM, ready |-> TRUE]]
    /\ index_names = <<>>
    /\ pinecone_ops = <<>>

(***************************************************************************)
(* SpecPdf: process_pdf followed by chunk_document, over every outcome of  *)
(* every image.                                                            *)
(***************************************************************************)
\* the largest chunk size, with an overlap of at most a fifth of it (Config: 200 of 1000)
PdfConfigSpace ==
    {cfg \in ConfigSpace :
        cfg.CHUNK_SIZE = MaxChunkSize /\ cfg.CHUNK_OVERLAP * 5 <= cfg.CHUNK_SIZE}

InitPdf ==
    /\ config \in PdfConfigSpace
    /\ pdf \in PdfSpace
    /\ page_num = 0
    /\ img_index = 0
    /\ descriptions = <<>>
    /\ files = {}
    /\ error_log = <<>>
    /\ processed_pages = <<>>
    /\ chunks = <<>>
    /\ pc = "process_pdf"
    /\ StoreIdle
    /\ QueryIdle
    /\ RemoteIdle

NextPdf ==
    \/ ImageExtractFails
    \/ ImageWriteFails
    \/ ImageDescribed
    \/ ImageRemoveFails
    \/ EmitPage
    \/ ChunkDocumentCall

SpecPdf == InitPdf /\ [][NextPdf]_vars

(***************************************************************************)
(* SpecChunk: chunk_document on every page list of the input space, under  *)
(* every configuration.  The initial state is the one process_pdf leaves.  *)
(***************************************************************************)
InitChunk ==
    /\ config \in ConfigSpace
    /\ processed_pages \in PageListSpace
    /\ pdf = [k \in 1..Len(processed_pages) |->
                [text |-> processed_pages[k].text,
                 num_images |-> Len(processed_pages[k].image_descriptions)]]
    /\ page_num = Len(processed_pages)
    /\ img_index = 0
    /\ descriptions = <<>>
    /\ files = {}
    /\ error_log = <<>>
    /\ chunks = <<>>
    /\ pc = "chunk"
    /\ StoreIdle
    /\ QueryIdle
    /\ RemoteIdle

NextChunk == ChunkDocumentCall

SpecChunk == InitChunk /\ [][NextChunk]_vars

(***************************************************************************)
(* Commands run one after the other against the same index: process       *)
(* (process_document) and query (the search call of generate_response).    *)
(* Every command is a process of its own: it builds its own VectorStore,   *)
(* and when it exits only the index keeps what it did.                     *)
(***************************************************************************)
\* CHUNK_SIZE and CHUNK_OVERLAP in the ratio of the program's 1000 and 200
StoreConfigSpace ==
    {cfg \in ConfigSpace :
        cfg.CHUNK_SIZE = MaxChunkSize /\ cfg.CHUNK_OVERLAP = cfg.CHUNK_SIZE \div 5}

\* the texts of the documents that are upserted: j windows of one letter
StoreTextSpace ==
    {[k \in 1..(j * (config.CHUNK_SIZE - config.CHUNK_OVERLAP)) |-> c] :
        j \in 0..(MaxDocs - 1), c \in {"a", "b"}}

\* the page lists process_pdf leaves for them: one page, with or without an image
\* description, of at most MaxDocs chunks
StorePageLists ==
    {pages \in {<<MakePage(0, t, d)>> : t \in StoreTextSpace, d \in {<<>>, << <<"x">> >>}} :
        Len(ChunkDocument(pages, config)) <= MaxDocs}

NewVectorStore ==
    /\ batch_size' = 1
    /\ doc_i' = 0
    /\ vectors' = <<>>
    /\ upsert_calls' = <<>>
    /\ embed_calls' = 0

\* main: the process command, for a first document and then for a second one (the same
\* or another); process_pdf has run and left its pages
StartRun ==
    /\ pc = "idle"
    /\ run \in {0, 1}
    /\ run' = run + 1
    /\ \E pages \in StorePageLists :
          /\ processed_pages' = pages
          /\ pdf' = [k \in 1..Len(pages) |->
                        [text |-> pages[k].text,
                         num_images |-> Len(pages[k].image_descriptions)]]
          /\ page_num' = Len(pages)
    /\ chunks' = <<>>
    /\ NewVectorStore
    /\ search_call' = NoSearch
    /\ pc' = "chunk"
    /\ UNCHANGED <<config, img_index, descriptions, files, error_log, index>>
    /\ index_at_start' = index
    /\ UNCHANGED <<queryVars, remoteVars>>

\* process_document: vector_store.upsert_documents(chunks) is entered
UpsertBegin ==
    /\ pc = "chunked"
    /\ \E bs \in 1..MaxBatch : batch_size' = bs
    /\ vectors' = <<>>
    /\ doc_i' = 0
    /\ pc' = "upsert"
    /\ UNCHANGED <<docVars, run, index, upsert_calls, embed_calls, search_call>>
    /\ UNCHANGED <<index_at_start, queryVars, remoteVars>>

InUpsertLoop == pc = "upsert" /\ doc_i < Len(chunks)

\* vectors after the append of line 124, the embedding call having gone as `outcome`
NextVectors(outcome) ==
    Append(vectors,
           MakeVector(chunks[doc_i + 1], GetEmbedding(chunks[doc_i + 1].content, outcome)))

\* index.upsert raises inside the loop: nothing catches it, in upsert_documents or in
\* process_document
UpsertSwallow(vs) ==
    /\ pc' = "upsert"
    /\ vectors' = <<>>
    /\ doc_i' = doc_i + 1
UpsertRaise(vs) ==
    /\ pc' = "raised"
    /\ vectors' = vs
    /\ doc_i' = doc_i

\* one pass of the loop that leaves the batch short of batch_size
UpsertAccumulate ==
    /\ InUpsertLoop
    /\ \E outcome \in EmbedOutcomes :
          /\ ~BatchFull(NextVectors(outcome), batch_size)
          /\ vectors' = NextVectors(outcome)
    /\ embed_calls' = embed_calls + 1
    /\ doc_i' = doc_i + 1
    /\ UNCHANGED <<docVars, pc, run, index, batch_size, upsert_calls, search_call>>
    /\ UNCHANGED <<index_at_start, queryVars, remoteVars>>

\* one pass of the loop that fills the batch, which the index accepts
UpsertSendBatch ==
    /\ InUpsertLoop
    /\ \E outcome \in EmbedOutcomes :
          /\ BatchFull(NextVectors(outcome), batch_size)
          /\ index' = IndexUpsert(index, NextVectors(outcome))
          /\ upsert_calls' = Append(upsert_calls, [vectors |-> NextVectors(outcome), ok |-> TRUE])
    /\ vectors' = <<>>
    /\ embed_calls' = embed_calls + 1
    /\ doc_i' = doc_i + 1
    /\ UNCHANGED <<docVars, pc, run, batch_size, search_call>>
    /\ UNCHANGED <<index_at_start, queryVars, remoteVars>>

\* one pass of the loop that fills the batch, which the index rejects
UpsertBatchRejected ==
    /\ InUpsertLoop
    /\ \E outcome \in EmbedOutcomes :
          /\ BatchFull(NextVectors(outcome), batch_size)
          /\ upsert_calls' = Append(upsert_calls, [vectors |-> NextVectors(outcome), ok |-> FALSE])
          /\ UpsertRaise(NextVectors(outcome))
    /\ embed_calls' = embed_calls + 1
    /\ UNCHANGED <<docVars, run, index, batch_size, search_call>>
    /\ UNCHANGED <<index_at_start, queryVars, remoteVars>>

\* after the loop: the remainder is sent and accepted
UpsertFlush ==
    /\ pc = "upsert"
    /\ doc_i = Len(chunks)
    /\ vectors # <<>>
    /\ index' = IndexUpsert(index, vectors)
    /\ upsert_calls' = Append(upsert_calls, [vectors |-> vectors, ok |-> TRUE])
    /\ pc' = "done"
    /\ UNCHANGED <<docVars, run, batch_size, doc_i, vectors, embed_calls, search_call>>
    /\ UNCHANGED <<index_at_start, queryVars, remoteVars>>

\* after the loop: the remainder is sent and rejected
UpsertFlushRejected ==
    /\ pc = "upsert"
    /\ doc_i = Len(chunks)
    /\ vectors # <<>>
    /\ upsert_calls' = Append(upsert_calls, [vectors |-> vectors, ok |-> FALSE])
    /\ pc' = "raised"
    /\ UNCHANGED <<docVars, run, index, batch_size, doc_i, vectors, embed_calls, search_call>>
    /\ UNCHANGED <<index_at_start, queryVars, remoteVars>>

\* after the loop: nothing is left to send
UpsertReturn ==
    /\ pc = "upsert"
    /\ doc_i = Len(chunks)
    /\ vectors = <<>>
    /\ pc' = "done"
    /\ UNCHANGED <<docVars, storeVars>>
    /\ UNCHANGED <<index_at_start, queryVars, remoteVars>>

QuerySpace == {<<"a", "b">>}

\* main: the query command, up to the VectorStore.search(query, top_k=3) call of
\* generate_response
Search ==
    /\ pc = "idle"
    /\ NewVectorStore
    /\ \E q \in QuerySpace, outcome \in EmbedOutcomes, provider \in ProviderOutcomes :
          LET matches == ProviderMatches(index, GetEmbedding(q, outcome), TopK)
              got == SearchTry(provider, matches) IN
          /\ search_call' =
                [query |-> q,
                 embed_ok |-> outcome.kind = "ok",
                 vector |-> GetEmbedding(q, outcome),
                 provider |-> provider,
                 matches |-> IF provider = "raise" THEN <<>> ELSE matches,
                 results |-> got.results]
          /\ pc' = IF got.raised THEN "raised" ELSE "searched"
    /\ UNCHANGED <<docVars, run, index>>
    /\ UNCHANGED <<index_at_start, queryVars, remoteVars>>

\* the command's process exits: its pages, chunks and VectorStore are gone
Exit ==
    /\ pc \in Ended
    /\ pc' = "idle"
    /\ pdf' = <<>>
    /\ page_num' = 0
    /\ processed_pages' = <<>>
    /\ chunks' = <<>>
    /\ NewVectorStore
    /\ search_call' = NoSearch
    /\ UNCHANGED <<config, img_index, descriptions, files, error_log, run, index>>
    /\ index_at_start' = EmptyIndex
    /\ UNCHANGED <<queryVars, remoteVars>>

InitStore ==
    /\ config \in StoreConfigSpace
    /\ pdf = <<>>
    /\ page_num = 0
    /\ img_index = 0
    /\ descriptions = <<>>
    /\ files = {}
    /\ error_log = <<>>
    /\ processed_pages = <<>>
    /\ chunks = <<>>
    /\ pc = "idle"
    /\ StoreIdle
    /\ QueryIdle
    /\ RemoteIdle

NextStore ==
    \/ StartRun
    \/ ChunkDocumentCall
    \/ UpsertBegin
    \/ UpsertAccumulate
    \/ UpsertSendBatch
    \/ UpsertBatchRejected
    \/ UpsertFlush
    \/ UpsertFlushRejected
    \/ UpsertReturn
    \/ Search
    \/ Exit

SpecStore == InitStore /\ [][NextStore]_vars

(***************************************************************************)
(* QueryProcessor.generate_response.  The fixed phrases of the prompt and  *)
(* of the answers, which the code never slices or searches, are one        *)
(* element each; everything the code slices, strips or searches is spelled *)
(* out character by character.                                             *)
(***************************************************************************)
PreviewChars == 6              \* 500 in generate_response

\* str.lower(), on the letters the model's error messages are written with
LowerChar(c) ==
    CASE c = "Q" -> "q"
      [] c = "A" -> "a"
      [] c = "P" -> "p"
      [] c = "E" -> "e"
      [] c = "G" -> "g"
      [] OTHER -> c

Lower(s) == [k \in DOMAIN s |-> LowerChar(s[k])]

\* sub in s
Contains(s, sub) ==
    \E k \in 0..(Len(s) - Len(sub)) : SubSeq(s, k + 1, k + Len(sub)) = sub

Quota == <<"q", "u", "o", "t", "a">>
Access == <<"a", "c", "c", "e", "s", "s">>
Permission == <<"p", "e", "r", "m", "i", "s", "s", "i", "o", "n">>

\* str(e) of the ValueError of line 133
EmptyResponseMessage ==
    <<"E", "m", "p", "t", "y", " ", "r", "e", "s", "p", "o", "n", "s", "e", " ", "f",
      "r", "o", "m", " ", "G", "e", "m", "i", "n", "i", " ", "m", "o", "d", "e", "l">>

NoInformationAnswer == <<"I couldn't find any relevant information to answer your question.">>
ModelUnavailableAnswer ==
    <<"Error: Gemini model is not available. Please check your API key and model configuration.">>
QuotaAnswer ==
    <<"I've reached my API quota limit. Please check your Google AI Studio account for usage limits.">>
AccessAnswer ==
    <<"I'm having trouble accessing the AI model. Please verify your API key and permissions.">>
ApologyPrefix ==
    <<"I'm sorry, I encountered an error while generating a response. The error was: ">>

SystemInstruction ==
    <<"You are a helpful assistant that answers questions based on the provided context. If the context doesn't contain the answer, say you don't know. Be concise and accurate in your responses.">>
VisionInstruction ==
    <<" When describing visual content, be sure to include details from the image descriptions provided in the context.">>
ModelAcknowledgement == <<"I understand and will assist with your request.">>

\* result['metadata'].get('page_number', 'N/A')
PageOf(result) ==
    IF "page_number" \in DOMAIN result.metadata THEN result.metadata.page_number ELSE "N/A"

\* the page as an f-string prints it
PageText(result) ==
    IF "page_number" \in DOMAIN result.metadata
        THEN ToStr(result.metadata.page_number) ELSE <<"N", "/", "A">>

\* f"[Source {i+1}, Page {...}]\n{result['content']}", i being enumerate's 0-based index
ContextPart(i, result) ==
    <<"[", "S", "o", "u", "r", "c", "e", " ">> \o ToStr(i + 1) \o
    <<",", " ", "P", "a", "g", "e", " ">> \o PageText(result) \o <<"]", "\n">> \o result.content

\* the entry of `sources` for one search result (lines 55-59)
SourceOf(result) ==
    [page |-> PageOf(result),
     content |-> Slice(result.content, 0, PreviewChars) \o <<".", ".", ".">>,
     has_images |->
        IF "has_images" \in DOMAIN result.metadata THEN result.metadata.has_images ELSE FALSE]

ContextParts(results) == [k \in DOMAIN results |-> ContextPart(k - 1, results[k])]

Sources(results) == [k \in DOMAIN results |-> SourceOf(results[k])]

\* use_vision and any(src['has_images'] for src in sources)
WantsVision(use_vision, sources) ==
    use_vision /\ \E k \in DOMAIN sources : sources[k].has_images

\* the two messages of lines 64-84
Messages(query, use_vision, results) ==
    <<[role |-> "system",
       content |-> SystemInstruction \o
                   (IF WantsVision(use_vision, Sources(results)) THEN VisionInstruction ELSE <<>>)],
      [role |-> "user",
       content |-> <<"Context:\n">> \o Join(<<"\n", "\n">>, ContextParts(results)) \o
                   <<"\n\nQuestion: ">> \o query \o
                   <<"\n\nAnswer the question based on the context above. If the context doesn't contain the answer, say you don't know.">>]>>

\* formatted_messages (lines 96-116): the system message as a user turn, the model's
\* acknowledgement, the user message
FormattedMessages(messages) ==
    <<[role |-> "user", text |-> messages[1].content],
      [role |-> "model", text |-> ModelAcknowledgement],
      [role |-> "user", text |-> messages[2].content]>>

\* the `contents` argument of generate_content (lines 119-123): the turns that are sent
SentContents(messages) == <<[role |-> "user", text |-> messages[2].content]>>

\* what one generate_content call can do: answer with a text, or raise with a message
ModelOutcomes ==
    {[kind |-> "text", text |-> t, message |-> <<>>] : t \in {<<>>, <<" ">>, <<" ", "y">>}} \cup
    {[kind |-> "raise", text |-> <<>>, message |-> m] :
        m \in {<<"Q", "u", "o", "t", "a">>,
               <<"n", "o", " ", "a", "c", "c", "e", "s", "s">>,
               <<"P", "e", "r", "m", "i", "s", "s", "i", "o", "n">>,
               <<"x">>}}

\* the except handler of lines 137-146, e being str(e)
ErrorAnswer(e) ==
    IF Contains(Lower(e), Quota) THEN QuotaAnswer
    ELSE IF Contains(Lower(e), Access) \/ Contains(Lower(e), Permission) THEN AccessAnswer
    ELSE ApologyPrefix \o e

\* lines 132-146: the answer for what generate_content did
AnswerOf(outcome) ==
    IF outcome.kind = "raise" THEN ErrorAnswer(outcome.message)
    ELSE IF outcome.text = <<>> THEN ErrorAnswer(EmptyResponseMessage)
    ELSE Strip(outcome.text)

\* `if not search_results` (line 41)
NoResultsOnEmptyIndex(results) == results = <<>> /\ DOMAIN index = {}
NoResults(results) == results = <<>>

\* generate_response has called search and search has returned
Generating == pc = "searched"

\* lines 41-46: the short circuit
GenerateNoMatch ==
    /\ Generating
    /\ NoResults(search_call.results)
    /\ \E uv \in BOOLEAN, gm \in BOOLEAN :
          generate_call' =
              [use_vision |-> uv, gemini_model |-> gm, requests |-> <<>>, path |-> "no_match",
               response |-> [answer |-> NoInformationAnswer, sources |-> <<>>, context |-> <<>>]]
    /\ pc' = "answered"
    /\ UNCHANGED <<docVars, storeVars, index_at_start, remoteVars>>

\* lines 87-91: self.gemini_model is missing or falsy
GenerateModelUnavailable ==
    /\ Generating
    /\ ~NoResults(search_call.results)
    /\ \E uv \in BOOLEAN :
          generate_call' =
              [use_vision |-> uv, gemini_model |-> FALSE, requests |-> <<>>,
               path |-> "unavailable",
               response |-> [answer |-> ModelUnavailableAnswer,
                             sources |-> Sources(search_call.results)]]
    /\ pc' = "answered"
    /\ UNCHANGED <<docVars, storeVars, index_at_start, remoteVars>>

\* lines 93-152: the model is called, and answers or fails
GenerateWithModel ==
    /\ Generating
    /\ ~NoResults(search_call.results)
    /\ \E uv \in BOOLEAN, outcome \in ModelOutcomes :
          LET messages == Messages(search_call.query, uv, search_call.results) IN
          generate_call' =
              [use_vision |-> uv, gemini_model |-> TRUE,
               requests |-> <<SentContents(messages)>>,
               path |-> IF outcome.kind = "text" /\ outcome.text # <<>>
                           THEN "success" ELSE "failure",
               response |-> [answer |-> AnswerOf(outcome),
                             sources |-> Sources(search_call.results),
                             context |-> ContextParts(search_call.results)]]
    /\ pc' = "answered"
    /\ UNCHANGED <<docVars, storeVars, index_at_start, remoteVars>>

\* the indexes a process command leaves: the records of one document, each with the
\* embedding service's vector or, the service failing throughout, with fallback vectors
QueryIndexSpace ==
    {IndexUpsert(EmptyIndex,
                 [k \in DOMAIN ChunkDocument(pages, config) |->
                    MakeVector(ChunkDocument(pages, config)[k],
                               GetEmbedding(ChunkDocument(pages, config)[k].content, outcome))]) :
        pages \in StorePageLists, outcome \in EmbedOutcomes}

\* main: the query command, against an index that process commands have filled (or not)
InitQuery ==
    /\ config \in StoreConfigSpace
    /\ pdf = <<>>
    /\ page_num = 0
    /\ img_index = 0
    /\ descriptions = <<>>
    /\ files = {}
    /\ error_log = <<>>
    /\ processed_pages = <<>>
    /\ chunks = <<>>
    /\ pc = "idle"
    /\ index \in QueryIndexSpace
    /\ run = IF DOMAIN index = {} THEN 0 ELSE 1
    /\ batch_size = 1
    /\ doc_i = 0
    /\ vectors = <<>>
    /\ upsert_calls = <<>>
    /\ embed_calls = 0
    /\ search_call = NoSearch
    /\ index_at_start = EmptyIndex
    /\ QueryIdle
    /\ RemoteIdle

NextQuery ==
    \/ Search
    \/ GenerateNoMatch
    \/ GenerateModelUnavailable
    \/ GenerateWithModel

SpecQuery == InitQuery /\ [][NextQuery]_vars

(***************************************************************************)
(* VectorStore._get_or_create_index, step by step against the Pinecone     *)
(* project.  Every client call either answers or raises; the except clause *)
(* of lines 76-78 prints and re-raises.  The service makes a created index *)
(* ready in its own time.                                                  *)
(***************************************************************************)
MaxDimension == 2      \* largest dimension an existing index has
MaxPolls == 2          \* describe_index calls of the wait loop that find the index not ready

OtherName == "other-index"

\* the projects the function can find: the target index absent or present with some
\* dimension, ready or not, and possibly an index of another name
RemoteSpace ==
    {r \in UNION {[names -> [dimension : 1..MaxDimension, ready : BOOLEAN]] :
                     names \in SUBSET {INDEX_NAME, OtherName}} :
        OtherName \in DOMAIN r => r[OtherName].ready}

PineconeOp(op, dimension, ready) == [op |-> op, dimension |-> dimension, ready |-> ready]

\* the names in the order list_indexes gives them
RECURSIVE NamesOf(_)
NamesOf(names) ==
    IF names = {} THEN <<>>
    ELSE LET n == CHOOSE x \in names : \A y \in names : x = y \/ x # OtherName
         IN  <<n>> \o NamesOf(names \ {n})

\* index_name in index_names
InNames(name, names) == \E k \in DOMAIN names : names[k] = name

\* index_names.remove(index_name)
RECURSIVE Remove(_, _)
Remove(names, name) ==
    IF names = <<>> THEN <<>>
    ELSE IF Head(names) = name THEN Tail(names)
    ELSE <<Head(names)>> \o Remove(Tail(names), name)

\* hasattr(index_info, 'dimension') and index_info.dimension != GEMINI_EMBEDDING_DIM
DimensionBelow(index_info) == index_info.dimension < GEMINI_EMBEDDING_DIM
DimensionMismatch(index_info) == index_info.dimension # GEMINI_EMBEDDING_DIM

\* the except clause: print and raise
IndexRaise ==
    /\ pc' = "raised"
    /\ UNCHANGED <<remote_indexes, index_names>>

\* line 42-43: list_indexes answers
ListIndexes ==
    /\ pc = "get_or_create_index"
    /\ index_names' = NamesOf(DOMAIN remote_indexes)
    /\ pinecone_ops' = Append(pinecone_ops, PineconeOp("list_indexes", 0, FALSE))
    /\ pc' = "listed"
    /\ UNCHANGED <<docVars, storeVars, index_at_start, queryVars, remote_indexes>>

\* line 42: list_indexes raises
ListIndexesRaises ==
    /\ pc = "get_or_create_index"
    /\ pinecone_ops' = Append(pinecone_ops, PineconeOp("list_indexes_raised", 0, FALSE))
    /\ IndexRaise
    /\ UNCHANGED <<docVars, storeVars, index_at_start, queryVars>>

\* lines 45, 55: the index is not listed
IndexAbsent ==
    /\ pc = "listed"
    /\ ~InNames(INDEX_NAME, index_names)
    /\ pc' = "checked"
    /\ UNCHANGED <<docVars, storeVars, index_at_start, queryVars, remoteVars>>

\* lines 45-48: the index is listed and describe_index shows the configured dimension
DescribeMatching ==
    /\ pc = "listed"
    /\ InNames(INDEX_NAME, index_names)
    /\ ~DimensionMismatch(remote_indexes[INDEX_NAME])
    /\ pinecone_ops' = Append(pinecone_ops,
                              PineconeOp("describe_index", remote_indexes[INDEX_NAME].dimension,
                                         remote_indexes[INDEX_NAME].ready))
    /\ pc' = "checked"
    /\ UNCHANGED <<docVars, storeVars, index_at_start, queryVars, remote_indexes, index_names>>

\* line 47: describe_index raises
DescribeRaises ==
    /\ pc = "listed"
    /\ InNames(INDEX_NAME, index_names)
    /\ pinecone_ops' = Append(pinecone_ops, PineconeOp("describe_index_raised", 0, FALSE))
    /\ IndexRaise
    /\ UNCHANGED <<docVars, storeVars, index_at_start, queryVars>>

\* lines 45-53: the index is listed with another dimension and delete_index answers
DeleteMismatched ==
    /\ pc = "listed"
    /\ InNames(INDEX_NAME, index_names)
    /\ DimensionMismatch(remote_indexes[INDEX_NAME])
    /\ pinecone_ops' = pinecone_ops \o
          <<PineconeOp("describe_index", remote_indexes[INDEX_NAME].dimension,
                       remote_indexes[INDEX_NAME].ready),
            PineconeOp("delete_index", 0, FALSE)>>
    /\ remote_indexes' = [n \in DOMAIN remote_indexes \ {INDEX_NAME} |-> remote_indexes[n]]
    /\ index_names' = Remove(index_names, INDEX_NAME)
    /\ pc' = "checked"
    /\ UNCHANGED <<docVars, storeVars, index_at_start, queryVars>>

\* line 51: delete_index raises
DeleteRaises ==
    /\ pc = "listed"
    /\ InNames(INDEX_NAME, index_names)
    /\ DimensionMismatch(remote_indexes[INDEX_NAME])
    /\ pinecone_ops' = pinecone_ops \o
          <<PineconeOp("describe_index", remote_indexes[INDEX_NAME].dimension,
                       remote_indexes[INDEX_NAME].ready),
            PineconeOp("delete_index_raised", 0, FALSE)>>
    /\ IndexRaise
    /\ UNCHANGED <<docVars, storeVars, index_at_start, queryVars>>

\* lines 55-66: create_index answers; the new index is ready at once or later
CreateIndex ==
    /\ pc = "checked"
    /\ ~InNames(INDEX_NAME, index_names)
    /\ \E ready \in BOOLEAN :
          remote_indexes' =
              [n \in DOMAIN remote_indexes \cup {INDEX_NAME} |->
                  IF n = INDEX_NAME
                      THEN [dimension |-> GEMINI_EMBEDDING_DIM, ready |-> ready]
                      ELSE remote_indexes[n]]
    /\ pinecone_ops' = Append(pinecone_ops, PineconeOp("create_index", GEMINI_EMBEDDING_DIM, FALSE))
    /\ pc' = "waiting"
    /\ UNCHANGED <<docVars, storeVars, index_at_start, queryVars, index_names>>

\* line 58: create_index raises
CreateRaises ==
    /\ pc = "checked"
    /\ ~InNames(INDEX_NAME, index_names)
    /\ pinecone_ops' = Append(pinecone_ops, PineconeOp("create_index_raised", 0, FALSE))
    /\ IndexRaise
    /\ UNCHANGED <<docVars, storeVars, index_at_start, queryVars>>

\* the describe_index calls of the wait loop so far that found the index not ready
RECURSIVE Polls(_)
Polls(ops) ==
    IF ops = <<>> THEN 0
    ELSE (IF ops[Len(ops)].op = "describe_index" /\ ~ops[Len(ops)].ready THEN 1 ELSE 0)
         + (IF ops[Len(ops)].op = "create_index" THEN 0 ELSE Polls(SubSeq(ops, 1, Len(ops) - 1)))

\* lines 69-70: the index is not ready; sleep and ask again
PollNotReady ==
    /\ pc = "waiting"
    /\ ~remote_indexes[INDEX_NAME].ready
    /\ Polls(pinecone_ops) < MaxPolls
    /\ pinecone_ops' = Append(pinecone_ops,
                              PineconeOp("describe_index", remote_indexes[INDEX_NAME].dimension, FALSE))
    /\ UNCHANGED <<docVars, pc, storeVars, index_at_start, queryVars, remote_indexes, index_names>>

\* line 69: describe_index raises in the wait loop
PollRaises ==
    /\ pc = "waiting"
    /\ pinecone_ops' = Append(pinecone_ops, PineconeOp("describe_index_raised", 0, FALSE))
    /\ IndexRaise
    /\ UNCHANGED <<docVars, storeVars, index_at_start, queryVars>>

\* lines 69-74: the index is ready; the loop ends and the index is returned
PollReady ==
    /\ pc = "waiting"
    /\ remote_indexes[INDEX_NAME].ready
    /\ pinecone_ops' = Append(pinecone_ops,
                              PineconeOp("describe_index", remote_indexes[INDEX_NAME].dimension, TRUE))
    /\ pc' = "returned"
    /\ UNCHANGED <<docVars, storeVars, index_at_start, queryVars, remote_indexes, index_names>>

\* lines 55, 74: the index is listed (and was not deleted); it is returned as it is
ReuseIndex ==
    /\ pc = "checked"
    /\ InNames(INDEX_NAME, index_names)
    /\ pc' = "returned"
    /\ UNCHANGED <<docVars, storeVars, index_at_start, queryVars, remoteVars>>

\* the service: an index that is not ready becomes ready
IndexBecomesReady ==
    /\ pc \in {"get_or_create_index", "listed", "checked", "waiting"}
    /\ INDEX_NAME \in DOMAIN remote_indexes
    /\ ~remote_indexes[INDEX_NAME].ready
    /\ remote_indexes' = [remote_indexes EXCEPT ![INDEX_NAME].ready = TRUE]
    /\ UNCHANGED <<docVars, pc, storeVars, index_at_start, queryVars, index_names, pinecone_ops>>

\* VectorStore.__init__ has reached line 30
InitIndex ==
    /\ config \in StoreConfigSpace
    /\ pdf = <<>>
    /\ page_num = 0
    /\ img_index = 0
    /\ descriptions = <<>>
    /\ files = {}
    /\ error_log = <<>>
    /\ processed_pages = <<>>
    /\ chunks = <<>>
    /\ pc = "get_or_create_index"
    /\ StoreIdle
    /\ QueryIdle
    /\ remote_indexes \in RemoteSpace
    /\ index_names = <<>>
    /\ pinecone_ops = <<>>

NextIndex ==
    \/ ListIndexes
    \/ ListIndexesRaises
    \/ IndexAbsent
    \/ DescribeMatching
    \/ DescribeRaises
    \/ DeleteMismatched
    \/ DeleteRaises
    \/ CreateIndex
    \/ CreateRaises
    \/ PollNotReady
    \/ PollRaises
    \/ PollReady
    \/ ReuseIndex
    \/ IndexBecomesReady

SpecIndex == InitIndex /\ [][NextIndex]_vars

(***************************************************************************)
(* Properties of chunk_document.                                           *)
(***************************************************************************)
\* ceil(a / b) for b > 0
CeilDiv(a, b) == (a + b - 1) \div b

\* the chunks of the page numbered p, in emission order
RECURSIVE ChunksOfPage(_, _)
ChunksOfPage(cs, p) ==
    IF cs = <<>> THEN <<>>
    ELSE (IF Head(cs).page_number = p THEN <<Head(cs)>> ELSE <<>>) \o ChunksOfPage(Tail(cs), p)

PageChunkSeq(p) == ChunksOfPage(chunks, p)

PageLen(p) == Len(processed_pages[p].full_content)

Step == config.CHUNK_SIZE - config.CHUNK_OVERLAP

ChunkIdsContiguous ==
    pc = "chunked" =>
        \A k \in DOMAIN chunks :
            /\ chunks[k].chunk_id = k - 1
            /\ k > 1 => chunks[k - 1].page_number <= chunks[k].page_number

\* a second page whose first chunk continues the numbering of a first page of several chunks
ChunkIdsWitness ==
    /\ pc = "chunked"
    /\ \E k \in DOMAIN chunks :
          /\ k > 2
          /\ chunks[k].page_number = 2
          /\ chunks[k - 1].page_number = 1
          /\ chunks[k].chunk_id = k - 1

\* cs[k] without its first n characters, for every k >= from, concatenated
RECURSIVE ConcatWithoutOverlap(_, _, _)
ConcatWithoutOverlap(cs, from, n) ==
    IF from > Len(cs) THEN <<>>
    ELSE Slice(cs[from].content, n, Len(cs[from].content))
            \o ConcatWithoutOverlap(cs, from + 1, n)

Reassembled(cs, overlap) ==
    IF cs = <<>> THEN <<>> ELSE cs[1].content \o ConcatWithoutOverlap(cs, 2, overlap)

\* C3: the first chunk of a page followed by every later chunk of the page without its first
\* O characters is the page's full_content.
ChunkRoundTrip ==
    pc = "chunked" =>
        \A p \in DOMAIN processed_pages :
            Reassembled(PageChunkSeq(p), config.CHUNK_OVERLAP) = processed_pages[p].full_content

\* a page of three or more chunks with a real overlap, the last chunk lying inside it
ChunkRoundTripWitness ==
    /\ pc = "chunked"
    /\ config.CHUNK_OVERLAP > 0
    /\ \E p \in DOMAIN processed_pages :
          LET cs == PageChunkSeq(p) IN
          /\ Len(cs) >= 3
          /\ Len(cs[Len(cs)].content) <= config.CHUNK_OVERLAP
          /\ Reassembled(cs, config.CHUNK_OVERLAP) = processed_pages[p].full_content

(***************************************************************************)
(* Properties of process_pdf.                                              *)
(***************************************************************************)
\* C4: has_images of a chunk is true exactly when its page has a non-empty image
\* description.
HasImagesIffNonEmptyDescription ==
    pc = "chunked" =>
        \A k \in DOMAIN chunks :
            chunks[k].has_images <=>
                \E j \in DOMAIN processed_pages[chunks[k].page_number].image_descriptions :
                    processed_pages[chunks[k].page_number].image_descriptions[j] # <<>>

\* C5: between two images, and after the last, no temporary image file exists.
TempFilesAlwaysRemoved == files = {}

\* the "Error processing image" lines of page p
RECURSIVE ErrorsOfPage(_, _)
ErrorsOfPage(log, p) ==
    IF log = <<>> THEN <<>>
    ELSE (IF Head(log).page = p THEN <<Head(log)>> ELSE <<>>) \o ErrorsOfPage(Tail(log), p)

PageErrors(p) == ErrorsOfPage(error_log, p)

\* the images of a page that n descriptions and the error lines errs account for: every
\* image gave a description, an error line, or both (described, then os.remove raised)
Accounts(n, errs, images) ==
    /\ n <= images
    /\ Len(errs) <= images
    /\ images <= n + Len(errs)
    /\ \A j \in DOMAIN errs : errs[j].img_index < images
    /\ \A j \in 2..Len(errs) : errs[j - 1].img_index < errs[j].img_index

\* C6: no image failure leaves process_pdf; every image of a page is handled, giving a
\* description or a logged error, the errors in image order; and once process_pdf has
\* returned there is a page for every page of the document, in order.
ImageFailureIsolated ==
    /\ pc # "raised"
    /\ \A p \in DOMAIN processed_pages :
          /\ processed_pages[p].page_number = p
          /\ Accounts(Len(processed_pages[p].image_descriptions), PageErrors(p),
                      pdf[p].num_images)
    /\ pc = "process_pdf" /\ page_num < Len(pdf) =>
          Accounts(Len(descriptions), PageErrors(page_num + 1), img_index)
    /\ pc \in {"chunk", "chunked"} => Len(processed_pages) = Len(pdf)

\* the first image of a page failed, a later image of the page was described, and the page
\* and a later page were emitted
ImageFailureWitness ==
    /\ pc = "chunk"
    /\ Len(processed_pages) = 2
    /\ \E j \in DOMAIN error_log : error_log[j] = [page |-> 1, img_index |-> 0]
    /\ Len(processed_pages[1].image_descriptions) = 1

(***************************************************************************)
(* Properties of upsert_documents.                                         *)
(***************************************************************************)
\* the vectors of the index.upsert calls, in the order they were sent
RECURSIVE SentVectors(_)
SentVectors(calls) ==
    IF calls = <<>> THEN <<>> ELSE Head(calls).vectors \o SentVectors(Tail(calls))

AllAccepted == \A k \in DOMAIN upsert_calls : upsert_calls[k].ok

\* vector v is the record of chunk c
IsVectorOf(v, c) ==
    /\ v.id = ToStr(c.chunk_id)
    /\ v.metadata = [page_number |-> c.page_number,
                     has_images |-> c.has_images,
                     content |-> Slice(c.content, 0, MetadataChars)]

\* C7: while no index call fails, the batches sent hold the chunks taken so far, each once
\* and in input order; no batch is empty or longer than batch_size; a batch goes out as soon
\* as it holds batch_size records, so only the last can be shorter; and when upsert_documents
\* returns every chunk has been sent.
UpsertBatching ==
    AllAccepted =>
        /\ \A k \in DOMAIN upsert_calls :
              /\ Len(upsert_calls[k].vectors) >= 1
              /\ Len(upsert_calls[k].vectors) <= batch_size
              /\ k < Len(upsert_calls) => Len(upsert_calls[k].vectors) = batch_size
        /\ pc = "upsert" =>
              /\ Len(vectors) < batch_size
              /\ \A k \in DOMAIN upsert_calls : Len(upsert_calls[k].vectors) = batch_size
              /\ LET taken == SentVectors(upsert_calls) \o vectors IN
                 /\ Len(taken) = doc_i
                 /\ \A k \in DOMAIN taken : IsVectorOf(taken[k], chunks[k])
        /\ pc = "done" =>
              LET sent == SentVectors(upsert_calls) IN
              /\ Len(sent) = Len(chunks)
              /\ \A k \in DOMAIN sent : IsVectorOf(sent[k], chunks[k])

\* a finished upsert of several batches whose last batch is the remainder
UpsertBatchingWitness ==
    /\ pc = "done"
    /\ batch_size >= 2
    /\ Len(upsert_calls) >= 2
    /\ Len(upsert_calls[Len(upsert_calls)].vectors) < batch_size
    /\ Len(SentVectors(upsert_calls)) = Len(chunks)

\* the index holds exactly the records of the chunk set, as far as ids and metadata go
HoldsChunkSet(idx) ==
    /\ DOMAIN idx = {ToStr(chunks[k].chunk_id) : k \in DOMAIN chunks}
    /\ \A k \in DOMAIN chunks :
          IsVectorOf([id |-> ToStr(chunks[k].chunk_id),
                      metadata |-> idx[ToStr(chunks[k].chunk_id)].metadata], chunks[k])

\* the stored values of the chunk set are the embedding service's
RealValues(idx) ==
    \A k \in DOMAIN chunks :
        idx[ToStr(chunks[k].chunk_id)].values =
            GetEmbedding(chunks[k].content, [kind |-> "ok", random |-> <<>>])

\* the second upsert is under way on an index that holds the chunk set from the first
SecondUpsert == run = 2 /\ pc \in {"chunked", "upsert"} /\ HoldsChunkSet(index)

\* C8 as stated: upserting the chunk set a second time leaves the stored records as they
\* were after the first time (ids, values and metadata), whether or not the embedding
\* service fails.
UpsertTwiceSameRecords == [][SecondUpsert => index' = index]_vars

\* C8 amended: upserting the chunk set a second time leaves the ids and the metadata of the
\* stored records as they were, with no id added; the values stay as well when they are the
\* embedding service's before and after (no fallback vector in either run).
UpsertTwiceSameIdsAndMetadata ==
    [][SecondUpsert =>
        /\ HoldsChunkSet(index')
        /\ (RealValues(index) /\ RealValues(index'))
           => index' = index]_vars

\* the second upsert has sent a batch and has chunks left, whose records the first run stored
UpsertTwiceWitness ==
    /\ SecondUpsert
    /\ pc = "upsert"
    /\ Len(upsert_calls) >= 1
    /\ upsert_calls[1].ok
    /\ doc_i < Len(chunks)

\* C9: once the index has rejected a batch, the call has raised, that batch is the last one
\* sent, no chunk after it has been embedded, and every batch accepted before it is in the
\* index.
UpsertFailureAborts ==
    \A k \in DOMAIN upsert_calls :
        ~upsert_calls[k].ok =>
            /\ pc = "raised"
            /\ k = Len(upsert_calls)
            /\ embed_calls = Len(SentVectors(upsert_calls))
            /\ \A j \in 1..(k - 1) :
                  \A n \in DOMAIN upsert_calls[j].vectors :
                      LET v == upsert_calls[j].vectors[n] IN
                      /\ v.id \in DOMAIN index
                      /\ index[v.id] = [values |-> v.values, metadata |-> v.metadata]

\* a batch was accepted, the next was rejected, and chunks were left that were never embedded
UpsertFailureWitness ==
    /\ pc = "raised"
    /\ Len(upsert_calls) >= 2
    /\ ~upsert_calls[Len(upsert_calls)].ok
    /\ embed_calls < Len(chunks)

(***************************************************************************)
(* Properties of search.                                                   *)
(***************************************************************************)
Formatted(matches) == [k \in DOMAIN matches |-> FormatMatch(matches[k])]

\* C10 as stated: search never raises; when the embedding call, the index query or the
\* result mapping fails it returns the empty sequence; otherwise it returns one result per
\* match, in the provider's order, with the content of the match's metadata.
SearchFailureGivesEmpty ==
    /\ pc = "raised" => search_call = NoSearch
    /\ pc = "searched" =>
          IF ~search_call.embed_ok \/ search_call.provider # "ok"
              THEN search_call.results = <<>>
              ELSE search_call.results = Formatted(search_call.matches)

\* C10 amended: search never raises; when the index query or the result mapping fails it
\* returns the empty sequence; otherwise, and also when the embedding call failed and the
\* query went out with the fallback vector, it returns one result per match the provider
\* gave for the vector that was sent, in the provider's order, with the content of the
\* match's metadata.
SearchNeverRaises ==
    /\ pc = "raised" => search_call = NoSearch
    /\ pc = "searched" =>
          /\ search_call.vector \in Embeddings
          /\ search_call.provider # "ok" => search_call.results = <<>>
          /\ search_call.provider = "ok" =>
                /\ search_call.matches = ProviderMatches(index, search_call.vector, TopK)
                /\ Len(search_call.results) = Len(search_call.matches)
                /\ \A k \in DOMAIN search_call.results :
                      /\ search_call.results[k].id = search_call.matches[k].id
                      /\ search_call.results[k].score = search_call.matches[k].score
                      /\ search_call.results[k].metadata = search_call.matches[k].metadata
                      /\ search_call.results[k].content = search_call.matches[k].metadata.content

\* the embedding call failed and search still returned top_k results from a larger index
SearchWitness ==
    /\ pc = "searched"
    /\ ~search_call.embed_ok
    /\ search_call.provider = "ok"
    /\ Len(search_call.results) = TopK
    /\ Cardinality(DOMAIN index) > TopK
    /\ search_call.results[1].content = search_call.matches[1].metadata.content

StartsWith(turn, text) == Len(turn.text) >= Len(text) /\ SubSeq(turn.text, 1, Len(text)) = text

\* C12 as stated: every request generate_response sends to the language model carries the
\* system instruction as a priming turn ahead of the user turn with the context block and
\* the question, and carries the instruction about image descriptions when use_vision is
\* true and a retrieved source has has_images.
PromptDelivered ==
    \A r \in DOMAIN generate_call.requests :
        LET request == generate_call.requests[r]
            messages == Messages(search_call.query, generate_call.use_vision, search_call.results)
        IN  /\ \E i, j \in DOMAIN request :
                  /\ i < j
                  /\ StartsWith(request[i], SystemInstruction)
                  /\ request[j] = [role |-> "user", text |-> messages[2].content]
            /\ WantsVision(generate_call.use_vision, Sources(search_call.results)) =>
                  \E i \in DOMAIN request : Contains(request[i].text, VisionInstruction)

\* C13 as stated: whatever path generate_response returns by, its response has the three
\* fields answer, sources and context; sources and context have the same length, at most
\* 3, and their k-th entries are those of the k-th search result.
ResponseShape ==
    pc = "answered" =>
        LET response == generate_call.response
            results == search_call.results
        IN  /\ {"answer", "sources", "context"} \subseteq DOMAIN response
            /\ Len(response.sources) = Len(response.context)
            /\ Len(response.sources) <= TopK
            /\ Len(response.sources) = Len(results)
            /\ \A k \in DOMAIN results :
                  /\ response.sources[k] = SourceOf(results[k])
                  /\ response.context[k] = ContextPart(k - 1, results[k])

(***************************************************************************)
(* Properties of _get_or_create_index.                                     *)
(***************************************************************************)
\* the call of the log at position k is `op`
OpAt(k, op) == k \in DOMAIN pinecone_ops /\ pinecone_ops[k].op = op

\* list_indexes listed the target index: the call after it is the describe_index of line 47
FoundListed == OpAt(2, "describe_index")

\* C14: when _get_or_create_index returns normally, the project has the index of the target
\* name with the configured dimension; an index found with that dimension is returned with
\* no delete_index and no create_index call; an index found with another dimension is
\* deleted and then created anew; an absent index is created; and a created index is
\* returned only after a describe_index call has reported it ready, every earlier call of
\* the wait loop having reported it not ready.
IndexLifecycle ==
    pc = "returned" =>
        /\ INDEX_NAME \in DOMAIN remote_indexes
        /\ remote_indexes[INDEX_NAME].dimension = GEMINI_EMBEDDING_DIM
        /\ OpAt(1, "list_indexes")
        /\ (FoundListed /\ pinecone_ops[2].dimension = GEMINI_EMBEDDING_DIM) =>
              Len(pinecone_ops) = 2
        /\ (FoundListed /\ pinecone_ops[2].dimension # GEMINI_EMBEDDING_DIM) =>
              /\ OpAt(3, "delete_index")
              /\ OpAt(4, "create_index")
        /\ ~FoundListed => OpAt(2, "create_index")
        /\ \A k \in DOMAIN pinecone_ops :
              /\ pinecone_ops[k].op = "delete_index" => k = 3
              /\ pinecone_ops[k].op = "create_index" =>
                    /\ k \in {2, 4}
                    /\ remote_indexes[INDEX_NAME].ready
                    /\ Len(pinecone_ops) > k
                    /\ pinecone_ops[Len(pinecone_ops)] =
                          PineconeOp("describe_index", GEMINI_EMBEDDING_DIM, TRUE)
                    /\ \A j \in (k + 1)..(Len(pinecone_ops) - 1) :
                          pinecone_ops[j] = PineconeOp("describe_index", GEMINI_EMBEDDING_DIM, FALSE)

\* an index of another dimension was found, deleted and created anew, and the wait loop
\* found the new index not ready before it found it ready
IndexLifecycleWitness ==
    /\ pc = "returned"
    /\ FoundListed
    /\ pinecone_ops[2].dimension # GEMINI_EMBEDDING_DIM
    /\ OpAt(4, "create_index")
    /\ Len(pinecone_ops) >= 6
    /\ OtherName \in DOMAIN remote_indexes

(***************************************************************************)
(* Properties of process commands run one after the other.                 *)
(***************************************************************************)
Max(a, b) == IF a > b THEN a ELSE b

\* the ids str(0) .. str(n - 1)
FirstIds(n) == {ToStr(k) : k \in 0..(n - 1)}

\* C15: a process command that has upserted all m chunks of its document into an index
\* that held the n records "0" .. "n-1" of the document before leaves max(n, m) records,
\* "0" .. "max(n, m)-1": the records "0" .. "m-1" have the metadata and content of the new
\* document's chunks, and the records "m" .. "n-1" are the earlier document's, untouched.
IdCollision ==
    (pc = "done" /\ run >= 1) =>
        LET n == Cardinality(DOMAIN index_at_start)
            m == Len(chunks)
        IN  /\ DOMAIN index_at_start = FirstIds(n)
            /\ DOMAIN index = FirstIds(Max(n, m))
            /\ Cardinality(DOMAIN index) = Max(n, m)
            /\ \A k \in 0..(m - 1) :
                  /\ chunks[k + 1].chunk_id = k
                  /\ index[ToStr(k)].metadata = MakeVector(chunks[k + 1], <<>>).metadata
            /\ \A k \in m..(n - 1) : index[ToStr(k)] = index_at_start[ToStr(k)]

\* the second document has fewer chunks than the first left records: record "1" had the
\* first document's content and has the second's, and record "m" is still the first's
IdCollisionWitness ==
    /\ pc = "done"
    /\ run = 2
    /\ Len(chunks) >= 2
    /\ Cardinality(DOMAIN index_at_start) > Len(chunks)
    /\ index_at_start["1"].metadata.content # index["1"].metadata.content
    /\ index["1"].metadata.content = Slice(chunks[2].content, 0, MetadataChars)
    /\ index[ToStr(Len(chunks))] = index_at_start[ToStr(Len(chunks))]

====
